---- MODULE Spec2Model ----
(***************************************************************************)
(* PEDAL artifact pipeline: the DAG pedal_artifact_pipeline                *)
(* (pedal-files-archive/airflow/dags/pipeline.py) and the DAG              *)
(* approval_workflow (pedal/airflow/dags/approval_workflow.py).            *)
(*                                                                         *)
(* The two files declare tasks, their order and their policies; the state  *)
(* they act on is the scheduler's record of DAG runs and task instances.   *)
(* A DAG run is identified by its logical date; a task instance by         *)
(* (dag, task_id, logical date).  Durations are in seconds.                *)
(***************************************************************************)
EXTENDS Integers, Sequences, FiniteSets, TLC

(* ------------------------------------------------------------------ *)
(* The declarations of pipeline.py                                     *)
(* ------------------------------------------------------------------ *)

\* default_args['retries'] (pipeline.py:18); default_args apply to every task
retries == 1

\* default_args['retry_delay'] = timedelta(minutes=5) (pipeline.py:19), in seconds
retry_delay == 300

\* ExternalTaskSensor(timeout=3600) (pipeline.py:45, 63, 81, 99, 117, 135)
timeout == 3600

\* ExternalTaskSensor(poke_interval=60) (pipeline.py:47, 65, 83, 101, 119, 137)
poke_interval == 60

\* default_args['email_on_failure'] (pipeline.py:16)
email_on_failure == TRUE

\* default_args['email']: the key is absent from default_args
\* (pipeline.py:13-20) and no task sets it, so no task has a recipient.
email == {}

\* ExternalTaskSensor's allowed_states (not given in pipeline.py: the default)
allowed_states == {"success"}

\* The chain of pipeline.py:149-152, in the order of the >> operators.
pipeline ==
  << "requirements_ingest",       "approve_requirements_ingest",
     "domain_model_generator",    "approve_domain_model_generator",
     "action_model_generator",    "approve_action_model_generator",
     "openapi_generator",         "approve_openapi_generator",
     "zod_schema_generator",      "approve_zod_schema_generator",
     "database_schema_generator", "approve_database_schema_generator",
     "artifact_persist" >>

\* Mutant: a sensor copied from the one before it watches that one's task.
external_task_id_Shared ==
  ( "approve_requirements_ingest"       :> "approve_requirements_ingest" ) @@
  ( "approve_domain_model_generator"    :> "approve_requirements_ingest" ) @@
  ( "approve_action_model_generator"    :> "approve_action_model_generator" ) @@
  ( "approve_openapi_generator"         :> "approve_openapi_generator" ) @@
  ( "approve_zod_schema_generator"      :> "approve_zod_schema_generator" ) @@
  ( "approve_database_schema_generator" :> "approve_database_schema_generator" )

\* task_id -> external_task_id of each ExternalTaskSensor of pipeline.py
\* (every one with external_dag_id = 'approval_workflow').
external_task_id ==
  ( "approve_requirements_ingest"       :> "approve_requirements_ingest" ) @@
  ( "approve_domain_model_generator"    :> "approve_domain_model_generator" ) @@
  ( "approve_action_model_generator"    :> "approve_action_model_generator" ) @@
  ( "approve_openapi_generator"         :> "approve_openapi_generator" ) @@
  ( "approve_zod_schema_generator"      :> "approve_zod_schema_generator" ) @@
  ( "approve_database_schema_generator" :> "approve_database_schema_generator" )

\* The tasks declared as ExternalTaskSensor; every other task is a BashOperator.
IsSensor(t) == t \in DOMAIN external_task_id

\* A path is the sequence of its components: /pedal/artifacts/oas.yaml is
\* << "pedal", "artifacts", "oas.yaml" >>.

\* Mutant: a stage reads the file its predecessor read, not the one it wrote.
input_path_Stale ==
  ( "requirements_ingest"        :> << "pedal", "artifacts", "requirements.yaml" >> ) @@
  ( "domain_model_generator"     :> << "pedal", "artifacts", "requirements.yaml" >> ) @@
  ( "action_model_generator"     :> << "pedal", "artifacts", "domain_model.json" >> ) @@
  ( "openapi_generator"          :> << "pedal", "artifacts", "action_model.json" >> ) @@
  ( "zod_schema_generator"       :> << "pedal", "artifacts", "oas.yaml" >> ) @@
  ( "database_schema_generator"  :> << "pedal", "artifacts", "zod_schemas.ts" >> ) @@
  ( "artifact_persist"           :> << "pedal", "artifacts" >> )

\* --input of each BashOperator's bash_command (pipeline.py:36, 54, 72, 90, 108, 126, 144)
input_path ==
  ( "requirements_ingest"        :> << "pedal", "artifacts", "requirements.yaml" >> ) @@
  ( "domain_model_generator"     :> << "pedal", "artifacts", "requirements.json" >> ) @@
  ( "action_model_generator"     :> << "pedal", "artifacts", "domain_model.json" >> ) @@
  ( "openapi_generator"          :> << "pedal", "artifacts", "action_model.json" >> ) @@
  ( "zod_schema_generator"       :> << "pedal", "artifacts", "oas.yaml" >> ) @@
  ( "database_schema_generator"  :> << "pedal", "artifacts", "zod_schemas.ts" >> ) @@
  ( "artifact_persist"           :> << "pedal", "artifacts" >> )

\* --output of each BashOperator's bash_command (same lines)
output_path ==
  ( "requirements_ingest"        :> << "pedal", "artifacts", "requirements.json" >> ) @@
  ( "domain_model_generator"     :> << "pedal", "artifacts", "domain_model.json" >> ) @@
  ( "action_model_generator"     :> << "pedal", "artifacts", "action_model.json" >> ) @@
  ( "openapi_generator"          :> << "pedal", "artifacts", "oas.yaml" >> ) @@
  ( "zod_schema_generator"       :> << "pedal", "artifacts", "zod_schemas.ts" >> ) @@
  ( "database_schema_generator"  :> << "pedal", "artifacts", "db_schema.ts" >> ) @@
  ( "artifact_persist"           :> << "pedal", "dist" >> )

(* ------------------------------------------------------------------ *)
(* The declarations of approval_workflow.py                            *)
(* ------------------------------------------------------------------ *)

\* The PythonOperator tasks of approval_workflow.py:39-79.
approval_tasks ==
  << "approve_requirements_ingest",    "approve_domain_model_generator",
     "approve_action_model_generator", "approve_openapi_generator",
     "approve_zod_schema_generator",   "approve_database_schema_generator" >>

\* op_kwargs={'task_id': ...} of each approval task: the stage whose approval
\* the task stands for (approval_workflow.py:42, 49, 56, 63, 70, 77).
op_kwargs ==
  ( "approve_requirements_ingest"       :> "requirements_ingest" ) @@
  ( "approve_domain_model_generator"    :> "domain_model_generator" ) @@
  ( "approve_action_model_generator"    :> "action_model_generator" ) @@
  ( "approve_openapi_generator"         :> "openapi_generator" ) @@
  ( "approve_zod_schema_generator"      :> "zod_schema_generator" ) @@
  ( "approve_database_schema_generator" :> "database_schema_generator" )

\* The task ids of approval_workflow: the approval entries that can exist.
Registry == { approval_tasks[k] : k \in 1..Len(approval_tasks) }

\* approve_task(**kwargs): prints and returns True, whatever its arguments.
approve_task(task_id) == TRUE

(* ------------------------------------------------------------------ *)
(* Bounds of the model                                                 *)
(* ------------------------------------------------------------------ *)

\* Gates of the chain that a modelled run goes through: the run covers the
\* first 2 * MaxGates + 1 tasks of the chain (stage, gate, ..., stage).
MaxGates == 2

\* How many poke intervals past its deadline a waiting sensor's clock is followed.
MaxLate == 2

\* Executions of one approval task for one logical date.
MaxGrants == 2

\* Worker slots: task instances that may execute at the same time.
PoolSize == 1

\* Restarts of the hosting process that are followed.
MaxRestarts == 2

\* Logical dates of the pipeline's runs, and of the approval runs.
Dates == {1, 2, 3}

\* The tasks of a run that goes through MaxGates gates.
NumTasks == 2 * MaxGates + 1

\* The approval tasks watched by the sensors among the first n tasks of the chain.
Watched(n) == { external_task_id[pipeline[i]] : i \in { j \in 1..n : IsSensor(pipeline[j]) } }

Checkpoints == Watched(NumTasks)

VARIABLES
  dagrun,            \* logical date -> state of the pipeline's DAG run
  ti,                \* logical date -> the run's task instances, in chain order
  approval,          \* logical date -> approval task -> its task instance
  cancel_requested,  \* logical date -> a cancellation of the run was requested
  restarts           \* restarts of the process that hosts the runs, so far

vars == << dagrun, ti, approval, cancel_requested, restarts >>

\* A task instance that has not run.
NoTI == [ state |-> "none", try_number |-> 0, failures |-> 0,
          elapsed |-> 0, wait |-> 0, late |-> FALSE, notified |-> FALSE ]

\* An approval task instance that has not run.  asked records that the
\* operator asked for this very approval (it is no state of the program).
NoApproval == [ state |-> "none", calls |-> 0, fresh |-> FALSE, asked |-> FALSE ]

Init ==
  /\ dagrun = [ d \in Dates |-> "none" ]
  /\ ti = [ d \in Dates |-> << >> ]
  /\ approval = [ d \in Dates |-> [ c \in Registry |-> NoApproval ] ]
  /\ cancel_requested = [ d \in Dates |-> FALSE ]
  /\ restarts = 0

(* ------------------------------------------------------------------ *)
(* Helpers                                                             *)
(* ------------------------------------------------------------------ *)

Min(a, b) == IF a < b THEN a ELSE b
Max(a, b) == IF a > b THEN a ELSE b

\* A task instance that fails sends its failure email when email_on_failure
\* is set and the task has a recipient.
EmailAlert == email_on_failure /\ email # {}

Tasks(d) == DOMAIN ti[d]

\* Task instances holding a worker slot.
Executing == { <<d, i>> \in Dates \X (1..Len(pipeline)) : i \in Tasks(d) /\ ti[d][i].state = "running" }

FreeSlot == Cardinality(Executing) < PoolSize

\* Mutant: the dependency a >> b is missing.
UpstreamDone_Unchained(d, i) == TRUE

\* Mutant: trigger rule all_done, b runs once a has ended, however it ended.
UpstreamDone_AllDone(d, i) ==
  IF i = 1 THEN TRUE ELSE ti[d][i - 1].state \in {"success", "failed", "upstream_failed"}

\* a >> b with the default trigger rule: b runs once a has succeeded.
UpstreamDone(d, i) == IF i = 1 THEN TRUE ELSE ti[d][i - 1].state = "success"

\* Mutant: the sensor only sees an approval granted at this very instant.
poke_Recent(d, t) ==
  /\ approval[d][external_task_id[t]].state \in allowed_states
  /\ approval[d][external_task_id[t]].fresh

\* Mutant: the sensor looks for the external task in a run of any date.
poke_AnyDate(d, t) ==
  \E e \in Dates : approval[e][external_task_id[t]].state \in allowed_states

\* ExternalTaskSensor.poke: the external task instance of the same logical
\* date is in one of allowed_states.
poke(d, t) == approval[d][external_task_id[t]].state \in allowed_states

(* ------------------------------------------------------------------ *)
(* The pipeline's DAG run                                              *)
(* ------------------------------------------------------------------ *)

\* schedule_interval=None: a run exists only by a manual trigger (pipeline.py:28).
\* The run gets one task instance per task; n is the length of the chain.
\* A run's logical date is the time of its trigger: later runs have later dates.
Trigger(d, n) ==
  /\ dagrun[d] = "none"
  /\ \A e \in Dates : e < d => dagrun[e] # "none"
  /\ dagrun' = [ dagrun EXCEPT ![d] = "running" ]
  /\ ti' = [ ti EXCEPT ![d] = [ i \in 1..n |-> NoTI ] ]
  /\ UNCHANGED << approval, cancel_requested, restarts >>

\* Mutant: an attempt starts whatever the state of the task instance.
StartStage_Again(d, i) ==
  /\ dagrun[d] = "running"
  /\ i \in Tasks(d)
  /\ ~IsSensor(pipeline[i])
  /\ ti[d][i].state # "running"
  /\ UpstreamDone(d, i)
  /\ FreeSlot
  /\ ti[d][i].try_number <= retries + MaxRestarts
  /\ ti' = [ ti EXCEPT ![d][i] = [ @ EXCEPT !.state = "running",
                                            !.try_number = @ + 1,
                                            !.elapsed = 0 ] ]
  /\ UNCHANGED << dagrun, approval, cancel_requested, restarts >>

\* A BashOperator task instance starts an attempt: first when its upstream
\* task has succeeded, again when retry_delay has passed since a failed attempt.
StartStage(d, i) ==
  /\ dagrun[d] = "running"
  /\ i \in Tasks(d)
  /\ ~IsSensor(pipeline[i])
  /\ \/ ti[d][i].state = "none" /\ UpstreamDone(d, i)
     \/ ti[d][i].state = "up_for_retry" /\ ti[d][i].elapsed >= retry_delay
  /\ FreeSlot
  /\ ti' = [ ti EXCEPT ![d][i] = [ @ EXCEPT !.state = "running",
                                            !.try_number = @ + 1,
                                            !.elapsed = 0 ] ]
  /\ UNCHANGED << dagrun, approval, cancel_requested, restarts >>

\* The bash_command exits 0.
StageSucceed(d, i) ==
  /\ dagrun[d] = "running"
  /\ i \in Tasks(d)
  /\ ~IsSensor(pipeline[i])
  /\ ti[d][i].state = "running"
  /\ ti' = [ ti EXCEPT ![d][i].state = "success" ]
  /\ UNCHANGED << dagrun, approval, cancel_requested, restarts >>

\* Mutant: off by one, the task fails once its attempts reach retries.
AfterFailure_OffByOne(t) ==
  [ t EXCEPT !.state = IF t.try_number < retries THEN "up_for_retry" ELSE "failed",
             !.failures = @ + 1,
             !.elapsed = 0 ]

\* The state of a task instance whose attempt failed: retried while attempts
\* remain ('retries': 1), failed after that.
AfterFailure(t) ==
  [ t EXCEPT !.state = IF t.try_number <= retries THEN "up_for_retry" ELSE "failed",
             !.failures = @ + 1,
             !.elapsed = 0,
             !.notified = IF t.try_number <= retries THEN @ ELSE EmailAlert ]

\* The bash_command exits non-zero.
StageFail(d, i) ==
  /\ dagrun[d] = "running"
  /\ i \in Tasks(d)
  /\ ~IsSensor(pipeline[i])
  /\ ti[d][i].state = "running"
  /\ ti' = [ ti EXCEPT ![d][i] = AfterFailure(@) ]
  /\ UNCHANGED << dagrun, approval, cancel_requested, restarts >>

\* Mutant: the running time is compared with poke_interval, not timeout.
SensorExecute_WrongLimit(t, approved) ==
  IF approved
    THEN [ t EXCEPT !.state = "success", !.try_number = 1,
                    !.elapsed = 0, !.wait = 0, !.late = FALSE ]
  ELSE IF t.elapsed > poke_interval
    THEN [ t EXCEPT !.state = "failed", !.try_number = 1, !.failures = @ + 1, !.wait = 0 ]
  ELSE [ t EXCEPT !.state = "up_for_reschedule", !.try_number = 1, !.wait = poke_interval ]

\* Mutant: the sensor does not look at the outcome of its poke.
SensorExecute_Blind(t, approved) ==
  IF t.elapsed > timeout
    THEN [ t EXCEPT !.state = "failed", !.try_number = 1, !.failures = @ + 1, !.wait = 0 ]
  ELSE [ t EXCEPT !.state = "up_for_reschedule", !.try_number = 1, !.wait = poke_interval ]

\* Mutant: mode='poke', the sensor keeps its slot between pokes.
SensorExecute_PokeMode(t, approved) ==
  IF approved
    THEN [ t EXCEPT !.state = "success", !.try_number = 1,
                    !.elapsed = 0, !.wait = 0, !.late = FALSE ]
  ELSE IF t.elapsed > timeout
    THEN [ t EXCEPT !.state = "failed", !.try_number = 1, !.failures = @ + 1, !.wait = 0 ]
  ELSE [ t EXCEPT !.state = "running", !.try_number = 1, !.wait = poke_interval ]

\* Mutant: a timeout is retried like any failure, the sensor starting over
\* with a fresh deadline while retries remain.
SensorExecute_RetryTimeout(t, approved) ==
  IF approved
    THEN [ t EXCEPT !.state = "success", !.try_number = 1,
                    !.elapsed = 0, !.wait = 0, !.late = FALSE ]
  ELSE IF t.elapsed > timeout
    THEN IF t.failures < retries
           THEN [ t EXCEPT !.state = "up_for_reschedule", !.try_number = 1,
                           !.failures = @ + 1, !.elapsed = 0, !.wait = poke_interval ]
           ELSE [ t EXCEPT !.state = "failed", !.try_number = 1, !.failures = @ + 1, !.wait = 0,
                           !.notified = EmailAlert ]
  ELSE [ t EXCEPT !.state = "up_for_reschedule", !.try_number = 1, !.wait = poke_interval ]

\* One execution of a sensor in mode='reschedule': poke; if the external task
\* has succeeded the sensor succeeds; else if it has run for longer than
\* timeout it fails (a sensor's timeout is not retried); else it gives its
\* slot back and is rescheduled poke_interval later.
SensorExecute(t, approved) ==
  IF approved
    THEN [ t EXCEPT !.state = "success", !.try_number = 1,
                    !.elapsed = 0, !.wait = 0, !.late = FALSE ]
  ELSE IF t.elapsed > timeout
    THEN [ t EXCEPT !.state = "failed", !.try_number = 1, !.failures = @ + 1, !.wait = 0,
                    !.notified = EmailAlert ]
  ELSE [ t EXCEPT !.state = "up_for_reschedule", !.try_number = 1, !.wait = poke_interval ]

\* Mutant: a sensor that has failed is poked again like one that waits.
Poke_Again(d, i) ==
  /\ dagrun[d] = "running"
  /\ i \in Tasks(d)
  /\ IsSensor(pipeline[i])
  /\ \/ ti[d][i].state = "none" /\ UpstreamDone(d, i)
     \/ ti[d][i].state \in {"up_for_reschedule", "failed"} /\ ti[d][i].wait = 0
  /\ FreeSlot
  /\ ti' = [ ti EXCEPT ![d][i] = SensorExecute(@, poke(d, pipeline[i])) ]
  /\ UNCHANGED << dagrun, approval, cancel_requested, restarts >>

\* A sensor is executed: when its upstream task has succeeded, and again each
\* time the date of its next poke has come.
Poke(d, i) ==
  /\ dagrun[d] = "running"
  /\ i \in Tasks(d)
  /\ IsSensor(pipeline[i])
  /\ \/ ti[d][i].state = "none" /\ UpstreamDone(d, i)
     \/ ti[d][i].state = "up_for_reschedule" /\ ti[d][i].wait = 0
  /\ FreeSlot
  /\ ti' = [ ti EXCEPT ![d][i] = SensorExecute(@, poke(d, pipeline[i])) ]
  /\ UNCHANGED << dagrun, approval, cancel_requested, restarts >>

\* The state of the run once its tasks allow deciding it: failed when a task
\* failed (the tasks after it are then upstream_failed), success when the
\* last task succeeded.
Finished(d) ==
  \/ \E i \in Tasks(d) : ti[d][i].state = "failed"
  \/ ti[d][Len(ti[d])].state = "success"

UpdateState(d) ==
  /\ dagrun[d] = "running"
  /\ Finished(d)
  /\ dagrun' = [ dagrun EXCEPT ![d] =
                   IF \E i \in Tasks(d) : ti[d][i].state = "failed" THEN "failed" ELSE "success" ]
  /\ ti' = [ ti EXCEPT ![d] = [ i \in Tasks(d) |->
               IF ti[d][i].state = "none" THEN [ ti[d][i] EXCEPT !.state = "upstream_failed" ]
               ELSE ti[d][i] ] ]
  /\ UNCHANGED << approval, cancel_requested, restarts >>

(* ------------------------------------------------------------------ *)
(* The approval DAG                                                    *)
(* ------------------------------------------------------------------ *)

\* Mutant: running the task again withdraws the approval.
Granted_Toggle(a, c) ==
  [ state |-> IF a.state = "success" THEN "none" ELSE "success",
    calls |-> a.calls + 1,
    fresh |-> TRUE,
    asked |-> a.asked ]

\* The approval task instance after one execution of its callable: its state
\* is the outcome, and its end date is the present instant.
Granted(a, c) ==
  [ state |-> IF approve_task(c) THEN "success" ELSE "failed",
    calls |-> a.calls + 1,
    fresh |-> TRUE,
    asked |-> a.asked ]

\* The operator has approval task c alone run for logical date d:
\* approve_task is called and the task instance takes the outcome.  The tasks
\* have no dependencies: each can be run on its own.  g bounds the executions
\* of one task for one date.
Grant(d, c, g) ==
  /\ approval[d][c].calls < g
  /\ approval[d][c].state # "scheduled"
  /\ FreeSlot
  /\ approval' = [ approval EXCEPT ![d][c] = [ Granted(@, c) EXCEPT !.asked = TRUE ] ]
  /\ UNCHANGED << dagrun, ti, cancel_requested, restarts >>

\* approval_workflow is triggered for logical date d (schedule_interval=None:
\* a run exists only by a manual trigger, one per logical date), by an
\* operator who means to approve c.  The run gets one task instance per task
\* of the DAG and, the tasks having no dependencies, all are scheduled.
TriggerApprovals(d, c) ==
  /\ \A x \in Registry : approval[d][x].state = "none"
  /\ approval' = [ approval EXCEPT ![d] =
                     [ x \in Registry |-> [ approval[d][x] EXCEPT !.state = "scheduled",
                                                                  !.asked = (x = c) ] ] ]
  /\ UNCHANGED << dagrun, ti, cancel_requested, restarts >>

\* A scheduled approval task instance is executed.
RunScheduled(d, c) ==
  /\ approval[d][c].state = "scheduled"
  /\ FreeSlot
  /\ approval' = [ approval EXCEPT ![d][c] = Granted(@, c) ]
  /\ UNCHANGED << dagrun, ti, cancel_requested, restarts >>

(* ------------------------------------------------------------------ *)
(* Time                                                                *)
(* ------------------------------------------------------------------ *)

\* Where a waiting sensor's clock stops being followed.
MaxElapsed == timeout + (MaxLate + 1) * poke_interval

\* A task instance q seconds later.  A rescheduled sensor's running time and
\* the time to its next poke move; it is late once time passes while its poke
\* is due.  A task up for retry counts the time since its attempt ended.
Later(t, q) ==
  IF t.state = "up_for_reschedule"
    THEN [ t EXCEPT !.elapsed = Min(@ + q, MaxElapsed),
                    !.wait = Max(@ - q, 0),
                    !.late = @ \/ t.wait = 0 ]
  ELSE IF t.state = "up_for_retry"
    THEN [ t EXCEPT !.elapsed = Min(@ + q, retry_delay + q) ]
  ELSE t

Tick(q) ==
  /\ ti' = [ d \in Dates |-> [ i \in Tasks(d) |-> Later(ti[d][i], q) ] ]
  /\ approval' = [ d \in Dates |-> [ c \in Registry |-> [ approval[d][c] EXCEPT !.fresh = FALSE ] ] ]
  /\ UNCHANGED << dagrun, cancel_requested, restarts >>
  /\ << ti', approval' >> # << ti, approval >>

(* ------------------------------------------------------------------ *)
(* Restart and cancellation                                            *)
(* ------------------------------------------------------------------ *)

\* A task instance read back after a restart: every status is as it was
\* written; an attempt that was in flight has no known result and its task
\* is attempted again.
Reloaded(t) == IF t.state = "running" THEN [ t EXCEPT !.state = "none" ] ELSE t

\* The hosting process stops and starts again: the runs are read back from
\* what was persisted, which is every transition made so far.
Crash ==
  /\ restarts < MaxRestarts
  /\ restarts' = restarts + 1
  /\ ti' = [ d \in Dates |-> [ i \in Tasks(d) |-> Reloaded(ti[d][i]) ] ]
  /\ UNCHANGED << dagrun, approval, cancel_requested >>

\* A cancellation of the run is requested from outside, at any time.
RequestCancel(d) ==
  /\ dagrun[d] = "running"
  /\ ~cancel_requested[d]
  /\ cancel_requested' = [ cancel_requested EXCEPT ![d] = TRUE ]
  /\ UNCHANGED << dagrun, ti, approval, restarts >>

\* The run is at a suspension point: no invocation of a stage is executing.
Suspended(d) == \A i \in Tasks(d) : ti[d][i].state # "running"

\* Mutant: the cancellation takes effect at once.
Cancel_Preemptive(d) ==
  /\ dagrun[d] = "running"
  /\ cancel_requested[d]
  /\ dagrun' = [ dagrun EXCEPT ![d] = "cancelled" ]
  /\ UNCHANGED << ti, approval, cancel_requested, restarts >>

\* A requested cancellation takes effect at a suspension point.
Cancel(d) ==
  /\ dagrun[d] = "running"
  /\ cancel_requested[d]
  /\ Suspended(d)
  /\ dagrun' = [ dagrun EXCEPT ![d] = "cancelled" ]
  /\ UNCHANGED << ti, approval, cancel_requested, restarts >>

(* ------------------------------------------------------------------ *)
(* The specifications                                                  *)
(* ------------------------------------------------------------------ *)

\* The steps of the runs of the dates D over the first n tasks of the chain,
\* with a clock that advances q seconds at a time and at most g executions
\* of each approval task.
Steps(D, n, q, g) ==
  \/ \E d \in D : Trigger(d, n)
  \/ \E d \in D, i \in 1..n : StartStage(d, i)
  \/ \E d \in D, i \in 1..n : StageSucceed(d, i)
  \/ \E d \in D, i \in 1..n : StageFail(d, i)
  \/ \E d \in D, i \in 1..n : Poke(d, i)
  \/ \E d \in D : UpdateState(d)
  \/ \E d \in D, c \in Watched(n) : Grant(d, c, g)
  \/ Tick(q)

\* One run over MaxGates gates; the clock advances by the shortest period
\* the DAG declares.
Next == Steps({1}, NumTasks, poke_interval, MaxGrants)

Spec == Init /\ [][Next]_vars

\* Every date's run over one gate (stage, gate, stage), every command
\* exiting 0, each approval task run at most once, with a clock that advances
\* by a sensor's timeout at a time.
\* The chain up to the stage that follows its first sensor.
PoolTasks == 1 + CHOOSE i \in 1..Len(pipeline) :
                   IsSensor(pipeline[i]) /\ \A j \in 1..(i - 1) : ~IsSensor(pipeline[j])

PoolNext ==
  \/ \E d \in Dates : Trigger(d, PoolTasks)
  \/ \E d \in Dates, i \in 1..PoolTasks : StartStage(d, i)
  \/ \E d \in Dates, i \in 1..PoolTasks : StageSucceed(d, i)
  \/ \E d \in Dates, i \in 1..PoolTasks : Poke(d, i)
  \/ \E d \in Dates : UpdateState(d)
  \/ \E d \in Dates, c \in Watched(PoolTasks) : Grant(d, c, 1)
  \/ Tick(timeout)

PoolSpec == Init /\ [][PoolNext]_vars

\* One run on a host that may restart, each approval task run at most once,
\* with a clock that advances by a sensor's timeout at a time.
CrashNext == Steps({1}, NumTasks, timeout, 1) \/ Crash

CrashSpec == Init /\ [][CrashNext]_vars

\* One run with cancellation, each approval task run at most once, with a
\* clock that advances by a sensor's timeout at a time.
CancelNext == Steps({1}, NumTasks, timeout, 1) \/ RequestCancel(1) \/ Cancel(1)

CancelSpec == Init /\ [][CancelNext]_vars

\* One run over the whole chain of pipeline.py, each approval task run at
\* most once, with a clock that advances by a sensor's timeout at a time.
ChainNext == Steps({1}, Len(pipeline), timeout, 1)

ChainSpec == Init /\ [][ChainNext]_vars

\* One run, with approvals granted by runs of approval_workflow as well as by
\* running one approval task alone, and a clock that advances by a sensor's
\* timeout at a time.
ApprovalNext ==
  \/ Steps({1}, NumTasks, timeout, 1)
  \/ \E c \in Registry : TriggerApprovals(1, c)
  \/ \E c \in Registry : RunScheduled(1, c)

ApprovalSpec == Init /\ [][ApprovalNext]_vars

\* One run in which every approval is granted early: an approval task is run,
\* at most once, only while the gate that watches it has not been entered.
\* The clock advances by retry_delay at a time.
EarlyNext ==
  \/ \E i \in 1..NumTasks : StartStage(1, i) \/ StageSucceed(1, i) \/ StageFail(1, i) \/ Poke(1, i)
  \/ Trigger(1, NumTasks)
  \/ UpdateState(1)
  \/ \E c \in Checkpoints :
       /\ \A i \in Tasks(1) :
            (IsSensor(pipeline[i]) /\ external_task_id[pipeline[i]] = c) => ti[1][i].state = "none"
       /\ Grant(1, c, 1)
  \/ Tick(retry_delay)

EarlySpec == Init /\ [][EarlyNext]_vars

\* One run, each approval task run at most once, with a clock that advances
\* by retry_delay at a time, under a scheduler that keeps working: a task
\* instance that can start is started, an invocation ends, a decided run is
\* marked, and time passes.
FairNext == Steps({1}, NumTasks, retry_delay, 1)

Progress ==
  \/ \E i \in 1..NumTasks : StartStage(1, i)
  \/ \E i \in 1..NumTasks : StageSucceed(1, i) \/ StageFail(1, i)
  \/ \E i \in 1..NumTasks : Poke(1, i)
  \/ UpdateState(1)
  \/ Tick(retry_delay)

FairSpec == Init /\ [][FairNext]_vars /\ WF_vars(Progress)

(* ------------------------------------------------------------------ *)
(* Vocabulary of the properties                                        *)
(* ------------------------------------------------------------------ *)

IsStage(i) == ~IsSensor(pipeline[i])
IsGate(i) == IsSensor(pipeline[i])

\* The task instance has begun: it has left the states of a task not yet run.
Begun(t) == t.state \notin {"none", "upstream_failed"}

\* The states in which a run has ended.
Terminal == {"success", "failed", "cancelled"}

\* The run's position: the first task that has not succeeded.
Cursor(d) ==
  IF \E i \in Tasks(d) : ti[d][i].state # "success"
    THEN CHOOSE i \in Tasks(d) : ti[d][i].state # "success" /\ \A j \in 1..(i - 1) : ti[d][j].state = "success"
    ELSE Len(ti[d]) + 1

\* The status of a run in the words of the specification: a run marked
\* failed is failed when a stage failed and timed_out when a gate did.
RunStatus(d) ==
  CASE dagrun[d] = "none" -> "pending"
    [] dagrun[d] = "running" -> "running"
    [] dagrun[d] = "success" -> "completed"
    [] dagrun[d] = "cancelled" -> "cancelled"
    [] dagrun[d] = "failed" ->
         IF \E i \in Tasks(d) : IsGate(i) /\ ti[d][i].state = "failed" THEN "timed_out" ELSE "failed"

(* ------------------------------------------------------------------ *)
(* C1                                                                  *)
(* ------------------------------------------------------------------ *)

\* C1: in every reachable state, a stage that has begun (left pending) follows
\* a gate that is approved: stage n+1 never begins before gate n is approved.
C1_StageAfterGate ==
  \A d \in Dates : \A i \in Tasks(d) :
    (i > 1 /\ IsStage(i) /\ Begun(ti[d][i])) =>
      (IsGate(i - 1) /\ ti[d][i - 1].state = "success")

\* The third stage is executing, after a retry of the second stage.
C1_Witness ==
  /\ dagrun[1] = "running"
  /\ ti[1][5].state = "running"
  /\ ti[1][3].try_number = 2

(* ------------------------------------------------------------------ *)
(* C2                                                                  *)
(* ------------------------------------------------------------------ *)

\* An attempt of a stage of the run has failed.
SomeAttemptFailed(d) == \E i \in Tasks(d) : IsStage(i) /\ ti[d][i].failures > 0

\* A gate of the run has reached its deadline with no approval granted: it
\* waits past the deadline ungranted, or it has timed out.
SomeDeadlineMissed(d) ==
  \E i \in Tasks(d) :
    /\ IsGate(i)
    /\ \/ ti[d][i].state = "failed"
       \/ /\ ti[d][i].state = "up_for_reschedule"
          /\ ti[d][i].elapsed >= timeout
          /\ ~poke(d, pipeline[i])

\* C2: a triggered run in which no attempt fails and no gate reaches its
\* deadline ungranted eventually is completed (a gate times out only past its
\* deadline and ungranted), and a completed run none of whose attempts failed
\* has invoked every stage exactly once.
C2_HappyRunCompletes ==
  /\ (dagrun[1] = "running") ~>
       (dagrun[1] = "success" \/ SomeAttemptFailed(1) \/ SomeDeadlineMissed(1))
  /\ [][\A i \in Tasks(1) :
          (IsGate(i) /\ ti[1][i].state # "failed" /\ ti'[1][i].state = "failed") =>
            (ti[1][i].elapsed >= timeout /\ ~poke(1, pipeline[i]))]_vars
  /\ [](dagrun[1] = "success" /\ ~SomeAttemptFailed(1) =>
          \A i \in Tasks(1) : IsStage(i) => ti[1][i].try_number = 1)

\* The run is completed and no attempt failed.
C2_Witness ==
  /\ dagrun[1] = "success"
  /\ ~SomeAttemptFailed(1)
  /\ \A i \in Tasks(1) : ti[1][i].state = "success"

(* ------------------------------------------------------------------ *)
(* C3                                                                  *)
(* ------------------------------------------------------------------ *)

\* C3: a stage is failed exactly when retries + 1 of its attempts have failed,
\* it is never attempted more than retries + 1 times, the run is then failed,
\* and an attempt after a failed one starts at least retry_delay after it.
C3_RetriesThenFailed ==
  /\ [](\A d \in Dates : \A i \in Tasks(d) : IsStage(i) =>
          /\ ti[d][i].try_number <= retries + 1
          /\ ti[d][i].state = "failed" <=> ti[d][i].failures = retries + 1
          /\ ti[d][i].state = "failed" =>
               /\ ti[d][i].try_number = retries + 1
               /\ dagrun[d] \in {"running", "failed"}
               /\ dagrun[d] = "failed" => RunStatus(d) = "failed"
               /\ dagrun[d] = "running" => ENABLED UpdateState(d))
  /\ [][\A d \in Dates : \A i \in Tasks(d) :
          (IsStage(i) /\ ti[d][i].state = "up_for_retry" /\ ti'[d][i].state = "running") =>
            ti[d][i].elapsed >= retry_delay]_vars

\* The first stage has failed after two attempts and the run is failed.
C3_Witness ==
  /\ dagrun[1] = "failed"
  /\ ti[1][1].state = "failed"
  /\ ti[1][1].try_number = 2

(* ------------------------------------------------------------------ *)
(* C4                                                                  *)
(* ------------------------------------------------------------------ *)

\* While a gate is timed out and the run is not yet marked, nothing of the run
\* can start.
NothingStarts(d) ==
  \A i \in 1..Len(pipeline) : ~ENABLED StartStage(d, i) /\ ~ENABLED Poke(d, i)

\* What holds of a timed-out gate whatever the time of its last poke: the
\* stages after it never began, and the run is timed out next.
TimedOutStops(d, i) ==
  /\ \A j \in Tasks(d) : j > i => ~Begun(ti[d][j]) /\ ti[d][j].try_number = 0
  /\ dagrun[d] \in {"running", "failed"}
  /\ dagrun[d] = "failed" => RunStatus(d) = "timed_out"
  /\ dagrun[d] = "running" => ENABLED UpdateState(d) /\ NothingStarts(d)

\* C4 as claimed: a gate times out no earlier than its deadline and no later
\* than its deadline plus one poke_interval, and the run is timed out
\* immediately after with no later stage started.
C4_Original ==
  \A d \in Dates : \A i \in Tasks(d) :
    (IsGate(i) /\ ti[d][i].state = "failed") =>
      /\ ti[d][i].elapsed >= timeout
      /\ ti[d][i].elapsed <= timeout + poke_interval
      /\ TimedOutStops(d, i)

\* What does hold of C4: a gate times out no earlier than its deadline, and
\* no later than its deadline plus one poke_interval when every poke of the
\* gate ran when it was due; the run is timed out immediately after with no
\* later stage started.
C4_TimedOutAfterDeadline ==
  \A d \in Dates : \A i \in Tasks(d) :
    (IsGate(i) /\ ti[d][i].state = "failed") =>
      /\ ti[d][i].elapsed >= timeout
      /\ ~ti[d][i].late => ti[d][i].elapsed <= timeout + poke_interval
      /\ TimedOutStops(d, i)

\* The first gate has timed out with every poke on time and the run is marked.
C4_Witness ==
  /\ dagrun[1] = "failed"
  /\ ti[1][2].state = "failed"
  /\ ~ti[1][2].late
  /\ ti[1][2].elapsed = timeout + poke_interval
  /\ approval[1][external_task_id[pipeline[2]]].calls = 0

(* ------------------------------------------------------------------ *)
(* C5                                                                  *)
(* ------------------------------------------------------------------ *)

\* The approval task c of date d is executed in this step.
GrantStep(d, c) == approval'[d][c].calls = approval[d][c].calls + 1

\* C5 as claimed: a grant of an entry already granted leaves it approved and
\* leaves the time of its grant that of the first call.
C5_Original ==
  [][\A d \in Dates : \A c \in Checkpoints :
       (GrantStep(d, c) /\ approval[d][c].calls >= 1) =>
         /\ approval'[d][c].state = "success"
         /\ approval'[d][c].fresh = approval[d][c].fresh]_vars

\* C5, amended: every grant succeeds and leaves the entry approved, a second
\* grant of an entry as much as the first; the time recorded with the entry
\* is that of the latest grant.
C5_GrantIdempotentOnApproval ==
  /\ [](\A d \in Dates : \A c \in Checkpoints :
          approval[d][c].calls >= 1 <=> approval[d][c].state = "success")
  /\ [][\A d \in Dates : \A c \in Checkpoints :
          GrantStep(d, c) =>
            /\ approval'[d][c].state = "success"
            /\ approval'[d][c].fresh]_vars

\* An entry has been granted twice, the second time at a later instant than
\* the first.
C5_Witness ==
  \E c \in Checkpoints :
    /\ approval[1][c].calls = 2
    /\ approval[1][c].state = "success"
    /\ approval[1][c].fresh
    /\ \E i \in Tasks(1) : ti[1][i].state = "up_for_reschedule" /\ ti[1][i].elapsed > 0

(* ------------------------------------------------------------------ *)
(* C6                                                                  *)
(* ------------------------------------------------------------------ *)

WaitingGates ==
  { <<d, i>> \in Dates \X (1..NumTasks) :
      i \in Tasks(d) /\ IsGate(i) /\ ti[d][i].state = "up_for_reschedule" }

\* The gates that have been entered and are in no final state, over all runs.
OpenGates ==
  { <<d, i>> \in Dates \X (1..NumTasks) :
      i \in Tasks(d) /\ IsGate(i) /\ Begun(ti[d][i]) /\ ti[d][i].state \notin {"success", "failed"} }

\* C7: the slots in use never exceed the pool, no open gate holds one, and a
\* stage that is ready starts whenever a slot is free, however many gates wait.
C7_WaitingGatesHoldNoWorker ==
  /\ Cardinality(Executing) <= PoolSize
  /\ OpenGates = WaitingGates
  /\ \A g \in OpenGates : g \notin Executing
  /\ \A d \in Dates : \A i \in Tasks(d) :
       ( /\ dagrun[d] = "running"
         /\ IsStage(i)
         /\ ti[d][i].state = "none"
         /\ UpstreamDone(d, i)
         /\ Cardinality({ e \in Executing : IsStage(e[2]) }) < PoolSize ) => ENABLED StartStage(d, i)

\* More gates wait than the pool has slots while a stage of another run executes.
C7_Witness ==
  /\ Cardinality(WaitingGates) > PoolSize
  /\ \E e \in Executing : IsStage(e[2]) /\ \A g \in WaitingGates : g[1] # e[1]

(* ------------------------------------------------------------------ *)
(* C8                                                                  *)
(* ------------------------------------------------------------------ *)

\* C8: when a stage is failed or a gate timed out, every earlier task has
\* succeeded, no later task ever began, the run ends failed (a stage) or
\* timed_out (a gate), and a run that has ended never changes again.
C8_FailureStopsRun ==
  /\ [](\A d \in Dates : \A i \in Tasks(d) :
          ti[d][i].state = "failed" =>
            /\ \A j \in Tasks(d) : j < i => ti[d][j].state = "success"
            /\ \A j \in Tasks(d) : j > i => ~Begun(ti[d][j]) /\ ti[d][j].try_number = 0
            /\ dagrun[d] \in {"running", "failed"}
            /\ dagrun[d] = "running" => ENABLED UpdateState(d) /\ NothingStarts(d)
            /\ dagrun[d] = "failed" =>
                 RunStatus(d) = IF IsGate(i) THEN "timed_out" ELSE "failed")
  /\ [](\A d \in Dates : dagrun[d] = "failed" => \E i \in Tasks(d) : ti[d][i].state = "failed")
  /\ [][\A d \in Dates :
          dagrun[d] \in Terminal => dagrun'[d] = dagrun[d] /\ ti'[d] = ti[d]]_vars

\* The first stage succeeded, its gate was approved, the second stage failed
\* after its retry, and the run is failed.
C8_Witness ==
  /\ dagrun[1] = "failed"
  /\ RunStatus(1) = "failed"
  /\ ti[1][1].state = "success"
  /\ ti[1][2].state = "success"
  /\ ti[1][3].state = "failed"
  /\ ti[1][3].try_number = 2
  /\ ti[1][4].state = "upstream_failed"

(* ------------------------------------------------------------------ *)
(* C9                                                                  *)
(* ------------------------------------------------------------------ *)

C10_CancelAtSuspension ==
  /\ [][\A d \in Dates :
          (dagrun[d] # "cancelled" /\ dagrun'[d] = "cancelled") =>
            /\ dagrun[d] = "running"
            /\ cancel_requested[d]
            /\ Suspended(d)]_vars
  /\ [](\A d \in Dates : dagrun[d] = "cancelled" =>
          /\ RunStatus(d) = "cancelled"
          /\ Suspended(d))
  /\ [][\A d \in Dates :
          dagrun[d] = "cancelled" =>
            /\ dagrun'[d] = "cancelled"
            /\ \A i \in Tasks(d) :
                 /\ ti'[d][i].state = ti[d][i].state
                 /\ ti'[d][i].try_number = ti[d][i].try_number]_vars

\* The run was cancelled after a failed attempt of its second stage, before
\* the retry.
C10_Witness ==
  /\ dagrun[1] = "cancelled"
  /\ ti[1][3].state = "up_for_retry"
  /\ ti[1][3].failures = 1

(* ------------------------------------------------------------------ *)
(* C11                                                                 *)
(* ------------------------------------------------------------------ *)

\* C11 as claimed: every stage that has succeeded is followed by a gate of
\* its own, and a run is completed only past a gate: the last task of a
\* completed run is a gate.
C11_Original ==
  \A d \in Dates :
    /\ \A i \in Tasks(d) :
         (IsStage(i) /\ ti[d][i].state = "success") => (i + 1 \in Tasks(d) /\ IsGate(i + 1))
    /\ dagrun[d] = "success" => IsGate(Len(ti[d]))

\* C11, amended: stages and gates alternate along the chain, the last stage
\* alone having no gate; a gate is invoked only after the success of the stage
\* before it, and is invoked next once that stage has succeeded; a run is
\* completed only when its last stage has succeeded after the approval of the
\* last gate.
C11_StagesAndGatesAlternate ==
  \A d \in Dates :
    /\ \A i \in Tasks(d) :
         /\ (IsStage(i) /\ i < Len(ti[d])) => IsGate(i + 1)
         /\ IsGate(i) => (i > 1 /\ IsStage(i - 1) /\ i + 1 \in Tasks(d) /\ IsStage(i + 1))
         /\ (IsGate(i) /\ Begun(ti[d][i])) => ti[d][i - 1].state = "success"
         /\ ( /\ IsGate(i)
              /\ dagrun[d] = "running"
              /\ ti[d][i].state = "none"
              /\ ti[d][i - 1].state = "success"
              /\ FreeSlot ) => ENABLED Poke(d, i)
    /\ dagrun[d] = "success" =>
         /\ IsStage(Len(ti[d]))
         /\ \A i \in Tasks(d) : ti[d][i].state = "success"

\* The run over the whole chain is completed: its last task, the stage
\* artifact_persist, has succeeded after the approval of the sixth gate.
C11_Witness ==
  /\ dagrun[1] = "success"
  /\ Len(ti[1]) = Len(pipeline)
  /\ pipeline[Len(ti[1])] = "artifact_persist"
  /\ ti[1][Len(ti[1])].state = "success"
  /\ ti[1][Len(ti[1]) - 1].state = "success"

(* ------------------------------------------------------------------ *)
(* C12                                                                 *)
(* ------------------------------------------------------------------ *)

\* C12: a gate misses its deadline at most once and is then timed out for
\* good: it is never waiting again after a timeout, its one try is never
\* followed by another, and no step changes it; a stage is never attempted
\* more than retries + 1 times and a failed stage is never attempted again.
C12_NoSilentRetry ==
  /\ [](\A d \in Dates : \A i \in Tasks(d) :
          /\ IsGate(i) =>
               /\ ti[d][i].try_number <= 1
               /\ ti[d][i].failures <= 1
               /\ ti[d][i].failures = 1 <=> ti[d][i].state = "failed"
               /\ ti[d][i].state = "failed" => ti[d][i].elapsed > timeout
          /\ IsStage(i) => ti[d][i].try_number <= retries + 1)
  /\ [][\A d \in Dates : \A i \in Tasks(d) :
          ti[d][i].state = "failed" =>
            /\ ti'[d][i] = ti[d][i]
            /\ dagrun'[d] # "success"]_vars

\* The second stage succeeded at its second attempt and the gate after it has
\* timed out; the time that passes then finds nothing to poke.
C12_Witness ==
  /\ dagrun[1] = "failed"
  /\ ti[1][3].state = "success"
  /\ ti[1][3].try_number = retries + 1
  /\ ti[1][4].state = "failed"
  /\ ti[1][4].try_number = 1
  /\ ~approval[1][external_task_id[pipeline[4]]].fresh
  /\ approval[1][external_task_id[pipeline[4]]].state = "success"

(* ------------------------------------------------------------------ *)
(* C13                                                                 *)
(* ------------------------------------------------------------------ *)

\* C13 as claimed: a grant for one checkpoint leaves every other checkpoint
\* as it was, so an entry is approved, and the gate watching it is approved,
\* only when a grant was asked for that very checkpoint.
C13_Original ==
  \A d \in Dates :
    /\ \A c \in Registry : approval[d][c].state = "success" => approval[d][c].asked
    /\ \A i \in Tasks(d) :
         (IsGate(i) /\ ti[d][i].state = "success") =>
           approval[d][external_task_id[pipeline[i]]].asked

(* ------------------------------------------------------------------ *)
(* C14                                                                 *)
(* ------------------------------------------------------------------ *)

\* The positions of the gates in the chain.
Gates == { i \in 1..Len(pipeline) : IsGate(i) }

\* The approval entry the gate at position i watches.
checkpoint_ref(i) == external_task_id[pipeline[i]]

\* C14: no two gates of the chain watch the same approval entry, every
\* watched entry is a task of approval_workflow, the entry of a gate stands
\* for exactly one stage, the stage right before the gate; and in every run a
\* gate is approved only when its own entry is.
C14_CheckpointRefsUnique ==
  /\ \A i \in Gates : \A j \in Gates : checkpoint_ref(i) = checkpoint_ref(j) => i = j
  /\ \A i \in Gates : checkpoint_ref(i) \in Registry
  /\ \A i \in Gates :
       /\ i > 1
       /\ IsStage(i - 1)
       /\ { k \in 1..Len(pipeline) : IsStage(k) /\ pipeline[k] = op_kwargs[checkpoint_ref(i)] } = {i - 1}
  /\ \A d \in Dates : \A i \in Tasks(d) :
       (IsGate(i) /\ ti[d][i].state = "success") => approval[d][checkpoint_ref(i)].state = "success"

\* The first gate is approved and the second waits: the entry of the first is
\* granted, the entry of the second is not.
C14_Witness ==
  /\ dagrun[1] = "running"
  /\ ti[1][2].state = "success"
  /\ ti[1][4].state = "up_for_reschedule"
  /\ approval[1][checkpoint_ref(2)].state = "success"
  /\ approval[1][checkpoint_ref(4)].state = "none"

(* ------------------------------------------------------------------ *)
(* C15                                                                 *)
(* ------------------------------------------------------------------ *)

\* The directory of a path.
Dir(path) == SubSeq(path, 1, Len(path) - 1)

\* C15 as claimed: a stage that has begun reads exactly the path the stage
\* before it writes.
C15_Original ==
  \A d \in Dates : \A i \in Tasks(d) :
    (IsStage(i) /\ i > 2 /\ Begun(ti[d][i])) =>
      input_path[pipeline[i]] = output_path[pipeline[i - 2]]

\* C15, amended: every stage but the last that has begun reads exactly the
\* path the stage before it writes, and that stage has succeeded; the last
\* stage, artifact_persist, reads the directory in which every stage before
\* it writes, and all of them have succeeded when it begins.
C15_ArtifactsChain ==
  \A d \in Dates : \A i \in Tasks(d) :
    (IsStage(i) /\ i > 2 /\ Begun(ti[d][i])) =>
      IF i < Len(pipeline)
        THEN /\ input_path[pipeline[i]] = output_path[pipeline[i - 2]]
             /\ ti[d][i - 2].state = "success"
        ELSE \A k \in 1..(i - 1) : IsStage(k) =>
               /\ Dir(output_path[pipeline[k]]) = input_path[pipeline[i]]
               /\ ti[d][k].state = "success"

\* artifact_persist is executing, after database_schema_generator succeeded.
C15_Witness ==
  /\ dagrun[1] = "running"
  /\ Len(ti[1]) = Len(pipeline)
  /\ ti[1][Len(pipeline)].state = "running"
  /\ ti[1][Len(pipeline) - 2].state = "success"

(* ------------------------------------------------------------------ *)
(* C16                                                                 *)
(* ------------------------------------------------------------------ *)

\* C16: a gate that is approved or timed out cannot be poked and is changed
\* by no step, whatever is granted afterwards, and a run that is timed out
\* stays timed out.
C16_GateStatesTerminal ==
  /\ [](\A d \in Dates : \A i \in Tasks(d) :
          (IsGate(i) /\ ti[d][i].state \in {"success", "failed"}) => ~ENABLED Poke(d, i))
  /\ [][\A d \in Dates : \A i \in Tasks(d) :
          (IsGate(i) /\ ti[d][i].state \in {"success", "failed"}) => ti'[d][i] = ti[d][i]]_vars
  /\ [][\A d \in Dates :
          RunStatus(d) = "timed_out" => RunStatus(d)' = "timed_out"]_vars

\* The first gate has timed out and its run is timed out; its approval was
\* granted only then, this very instant.
C16_Witness ==
  /\ dagrun[1] = "failed"
  /\ RunStatus(1) = "timed_out"
  /\ ti[1][2].state = "failed"
  /\ approval[1][checkpoint_ref(2)].state = "success"
  /\ approval[1][checkpoint_ref(2)].calls = 1
  /\ approval[1][checkpoint_ref(2)].fresh

(* ------------------------------------------------------------------ *)
(* C17                                                                 *)
(* ------------------------------------------------------------------ *)

\* C17 as claimed: a run that has ended failed or timed out has sent the
\* failure notification of the stage or gate that failed.
C17_Original ==
  \A d \in Dates :
    RunStatus(d) \in {"failed", "timed_out"} =>
      \E i \in Tasks(d) : ti[d][i].state = "failed" /\ ti[d][i].notified

(* ------------------------------------------------------------------ *)
(* C18                                                                 *)
(* ------------------------------------------------------------------ *)

\* C18: a gate whose approval was granted before the gate is entered can be
\* entered as soon as the stage before it has succeeded, and entering it
\* approves it at its first poke, without a reschedule; the stage after a
\* gate begins only when the stage before the gate has succeeded, however
\* early the grant.
C18_EarlyGrantNotLost ==
  /\ [](\A d \in Dates : \A i \in Tasks(d) :
          /\ ( /\ IsGate(i)
               /\ dagrun[d] = "running"
               /\ ti[d][i].state = "none"
               /\ ti[d][i - 1].state = "success"
               /\ approval[d][checkpoint_ref(i)].state = "success"
               /\ FreeSlot ) => ENABLED Poke(d, i)
          /\ (IsStage(i) /\ i > 2 /\ Begun(ti[d][i])) => ti[d][i - 2].state = "success"
          /\ (IsGate(i) /\ ti[d][i].state = "success") => ti[d][i - 1].state = "success")
  /\ [][\A d \in Dates : \A i \in Tasks(d) :
          ( /\ IsGate(i)
            /\ ti[d][i].state = "none"
            /\ approval[d][checkpoint_ref(i)].state = "success"
            /\ Begun(ti'[d][i]) ) => ti'[d][i].state = "success"]_vars

\* Both approvals were granted at an earlier instant than the first stage
\* ended: the first stage succeeded at its second attempt, its gate is
\* approved, and the second stage is executing.
C18_Witness ==
  /\ dagrun[1] = "running"
  /\ ti[1][1].try_number = 2
  /\ ti[1][2].state = "success"
  /\ ~approval[1][checkpoint_ref(2)].fresh
  /\ approval[1][checkpoint_ref(4)].state = "success"
  /\ ti[1][3].state = "running"

(* ------------------------------------------------------------------ *)
(* C19                                                                 *)
(* ------------------------------------------------------------------ *)

\* C19: a gate of a run is approved only when the entry of that run's own
\* logical date is granted, and a grant made for one date changes neither an
\* entry nor a task instance of a run of another date.
C19_ApprovalsScopedToRun ==
  /\ [](\A d \in Dates : \A i \in Tasks(d) :
          (IsGate(i) /\ ti[d][i].state = "success") =>
            approval[d][checkpoint_ref(i)].calls >= 1)
  /\ [][\A d \in Dates : \A c \in Registry :
          GrantStep(d, c) =>
            \A e \in Dates \ {d} : approval'[e] = approval[e] /\ ti'[e] = ti[e]]_vars

\* Two runs wait at their first gate and only the first run's approval is
\* granted: the first run's gate is approved, the second run's gate has
\* timed out.
C19_Witness ==
  /\ dagrun[1] = "running"
  /\ dagrun[2] # "none"
  /\ ti[1][2].state = "success"
  /\ ti[2][2].state = "failed"
  /\ approval[1][checkpoint_ref(2)].state = "success"
  /\ approval[2][checkpoint_ref(2)].state = "none"

(* ------------------------------------------------------------------ *)
(* C20                                                                 *)
(* ------------------------------------------------------------------ *)

\* The tasks of a run that are active: executing, waiting for a retry or
\* waiting for the next poke.
Active(d) ==
  { i \in Tasks(d) : ti[d][i].state \in {"running", "up_for_retry", "up_for_reschedule"} }

\* C20: in every state of a run at most one task is active; every task before
\* an active one has succeeded (stages succeeded, gates approved) and every
\* task after it is pending, never attempted; with no task active, the same
\* holds around the first task that has not succeeded.
C20_OneActivePosition ==
  \A d \in Dates :
    /\ Cardinality(Active(d)) <= 1
    /\ \A i \in Active(d) :
         /\ i = Cursor(d)
         /\ \A j \in Tasks(d) : j < i => ti[d][j].state = "success"
         /\ \A j \in Tasks(d) : j > i => ti[d][j].state = "none" /\ ti[d][j].try_number = 0
    /\ \A j \in Tasks(d) : j > Cursor(d) => ~Begun(ti[d][j]) /\ ti[d][j].try_number = 0

\* The second gate waits for its next poke: the two stages and the gate before
\* it have succeeded, the second of the stages at its second attempt, and the
\* stage after it is pending.
C20_Witness ==
  /\ dagrun[1] = "running"
  /\ Active(1) = {4}
  /\ ti[1][4].state = "up_for_reschedule"
  /\ ti[1][3].try_number = 2
  /\ ti[1][5].state = "none"

====
